---- MODULE Spec2Model ----
(***************************************************************************)
(* Model of the performance engine of backend/utils/performance_service.py *)
(* (PerformanceService) and of the market-data boundary it reads           *)
(* (backend/utils/yahoo_finance.py).                                       *)
(*                                                                         *)
(* Units.  A timestamp is a number of ticks, TicksPerDay ticks to a day;   *)
(* a daily bar is stamped at midnight of its day.  Money (closes, prices,  *)
(* position values) is counted in fine units of 0.002, five to a cent, so  *)
(* that round(x, 2) is a real rounding and never meets a tie.  The fields  *)
(* value and total_return of a result are in cents, change_percent and     *)
(* total_return_percent in hundredths of a percent.                        *)
(***************************************************************************)
EXTENDS Integers, Sequences, FiniteSets, TLC

VARIABLES
    market,     \* what Yahoo Finance answers: symbol -> [ok, data]
    positions,  \* the positions argument of the last call
    period,     \* the period argument of the last call
    op,         \* "none" | "portfolio" | "position": the call that produced result
    target,     \* the position handed to calculate_position_performance
    result,     \* the dictionary the call returned
    benchmark,  \* what Yahoo Finance answers for the index symbol: [ok, data]
    exchange_rate_cache,  \* _exchange_rate_cache: pair -> cached rate
    cache_timestamp,      \* _cache_timestamp: None, or the time of the last store
    clock,      \* datetime.now(), in seconds
    calls,      \* the get_exchange_rate calls in flight: caller -> frame
    portfolio_metrics,     \* the portfolio_metrics argument of generate_recommendations
    db_positions,          \* db.positions: the documents, in insertion order
    db_transactions,       \* db.transactions, in insertion order
    db_cash_accounts,      \* db.cash_accounts: the accounts, in insertion order
    db_cash_transactions,  \* db.cash_transactions, in insertion order
    requests    \* the add_position requests in flight: request -> frame

\* the arguments and the result of the last call of a service, and the
\* provider's answers
serviceVars == <<market, positions, period, op, target, result, benchmark>>

\* the module globals of yahoo_finance.py, the wall clock and the callers
fxVars == <<exchange_rate_cache, cache_timestamp, clock, calls>>

\* the collections of the database, the requests being served and the
\* metrics handed to the recommendations
dbVars == <<portfolio_metrics, db_positions, db_transactions, db_cash_accounts,
            db_cash_transactions, requests>>

vars == <<market, positions, period, op, target, result, benchmark,
          exchange_rate_cache, cache_timestamp, clock, calls,
          portfolio_metrics, db_positions, db_transactions, db_cash_accounts,
          db_cash_transactions, requests>>

----------------------------------------------------------------------------
(* Bounds of the model *)

TicksPerDay == 2

MaxPositions == 2

----------------------------------------------------------------------------
(* Generic helpers *)

MinOf(S) == CHOOSE x \in S : \A y \in S : x <= y

MaxOf(S) == CHOOSE x \in S : \A y \in S : x >= y

Range(f) == {f[x] : x \in DOMAIN f}

RECURSIVE SortedSeq(_)
SortedSeq(S) == IF S = {} THEN <<>>
                ELSE LET m == MinOf(S) IN <<m>> \o SortedSeq(S \ {m})

RECURSIVE SumOver(_, _)
SumOver(S, f) == IF S = {} THEN 0
                 ELSE LET x == CHOOSE y \in S : TRUE
                      IN f[x] + SumOver(S \ {x}, f)

\* n / d rounded to the nearest integer (d > 0)
RoundDiv(n, d) == (2 * n + d) \div (2 * d)

----------------------------------------------------------------------------
(* Clock and calendar *)

Midnight(day) == day * TicksPerDay

\* date.strftime('%Y-%m-%d'): the day of a timestamp, its time of day dropped
DateOf(ts) == ts \div TicksPerDay

\* timedelta(days=n)
Days(n) == n * TicksPerDay

\* the day datetime.now() falls on: the 51st day of a 365-day year
Today == 365 + 50

\* datetime.now(): some time after midnight of Today
Now == Midnight(Today) + 1

\* datetime(end_date.year, 1, 1)
YearStart(ts) == Midnight((DateOf(ts) \div 365) * 365)

Periods == {"all", "ytd", "1m", "3m", "6m", "1y"}

----------------------------------------------------------------------------
(* Inputs: the market and the holdings *)

Symbols == {"AAPL", "BTC-EUR"}

\* the days, counted back from Today, on which an instrument may have a bar
DayOffsets == {100, 40, 10}

BarTimes == {Midnight(Today - o) : o \in DayOffsets}

\* the closes a bar of a symbol may carry, in fine units (a drop from 5 is a
\* loss of more than half)
Closes == [s \in Symbols |-> IF s = "AAPL" THEN {1, 2, 5} ELSE {1, 2}]

\* a price history: the Close column of ticker.history(), indexed by bar time
Histories(symbol) == UNION {[D -> Closes[symbol]] : D \in SUBSET BarTimes}

NoHistory == [ok |-> FALSE, data |-> <<>>]

\* the answers of the provider: None (it raised), an empty table, or bars
Answers(symbol) ==
    {NoHistory} \cup {[ok |-> TRUE, data |-> h] : h \in Histories(symbol)}

Markets == {m \in [Symbols -> UNION {Answers(s) : s \in Symbols}] :
              \A s \in Symbols : m[s] \in Answers(s)}

\* the positions the callers may pass (server.py passes only quantity > 0);
\* the same symbol may be held twice, in two portfolios of the user, and a
\* position may have cost nothing
Holdings ==
    { [symbol |-> "AAPL",    quantity |-> 2,    avg_price |-> 1, purchase_date |-> Midnight(Today - 40) + 1],
      [symbol |-> "AAPL",    quantity |-> 1000, avg_price |-> 2, purchase_date |-> Midnight(Today - 120) + 1],
      [symbol |-> "BTC-EUR", quantity |-> 3,    avg_price |-> 0, purchase_date |-> Midnight(Today - 40) + 1] }

PositionLists == UNION {[1..n -> Holdings] : n \in 0..MaxPositions}

----------------------------------------------------------------------------
(* yahoo_finance.py: the market-data boundary *)

\* YahooFinanceService.get_historical_data: the provider's table, or None
\* (ok = FALSE) when the provider raised
get_historical_data(symbol) == market[symbol]

----------------------------------------------------------------------------
(* performance_service.py: helpers of calculate_portfolio_performance *)

\* (variant: the amount cut to whole cents instead of rounded)
Round2Truncated(v) == v \div 5

\* round(x, 2) of an amount: fine units -> cents
Round2(v) == RoundDiv(v, 5)

\* round(num / den * 100, 2): hundredths of a percent
Percent(num, den) == RoundDiv(10000 * num, den)

EmptyResult == [data |-> <<>>, total_return |-> 0, total_return_percent |-> 0]

\* the start of the window of a period selector; 'all' (and any other
\* string) takes the start the caller passes
PeriodStart(per, allStart) ==
    IF per = "ytd" THEN YearStart(Now)
    ELSE IF per = "1m" THEN Now - Days(30)
    ELSE IF per = "3m" THEN Now - Days(90)
    ELSE IF per = "6m" THEN Now - Days(180)
    ELSE IF per = "1y" THEN Now - Days(365)
    ELSE allStart

\* start_date of calculate_portfolio_performance
PortfolioStartDate(ps, per) ==
    PeriodStart(per, MinOf({ps[i].purchase_date : i \in DOMAIN ps}))

\* (variant: the history is not cut to the window)
FilterNothing(series, start) == series

\* hist_data[hist_data.index >= start_date]
FilterFrom(series, start) ==
    [t \in {u \in DOMAIN series : u >= start} |-> series[t]]

\* hist_data['Close'] * quantity
PositionValues(series, quantity) ==
    [t \in DOMAIN series |-> series[t] * quantity]

\* (variant: the first position without usable history ends the loop with
\* nothing collected, in place of being skipped)
RECURSIVE CollectSeriesOrAbort(_, _, _)
CollectSeriesOrAbort(ps, start, n) ==
    IF n = 0 THEN <<>>
    ELSE LET acc == CollectSeriesOrAbort(ps, start, n - 1)
             position == ps[n]
             hist_data == get_historical_data(position.symbol)
             inWindow == FilterFrom(hist_data.data, start)
         IN  IF \E i \in 1..n :
                   \/ ~get_historical_data(ps[i].symbol).ok
                   \/ DOMAIN FilterFrom(get_historical_data(ps[i].symbol).data, start) = {}
             THEN <<>>
             ELSE [s \in DOMAIN acc \cup {position.symbol} |->
                     IF s = position.symbol
                     THEN PositionValues(inWindow, position.quantity)
                     ELSE acc[s]]

\* the loop over the positions: position_series after the first n of them
RECURSIVE CollectSeries(_, _, _)
CollectSeries(ps, start, n) ==
    IF n = 0 THEN <<>>
    ELSE LET acc == CollectSeries(ps, start, n - 1)
             position == ps[n]
             hist_data == get_historical_data(position.symbol)
         IN  IF ~hist_data.ok \/ DOMAIN hist_data.data = {} THEN acc
             ELSE LET inWindow == FilterFrom(hist_data.data, start)
                  IN  IF DOMAIN inWindow = {} THEN acc
                      ELSE [s \in DOMAIN acc \cup {position.symbol} |->
                              IF s = position.symbol
                              THEN PositionValues(inWindow, position.quantity)
                              ELSE acc[s]]

(* A DataFrame is [index, cols]: index the row labels in row order, cols    *)
(* the columns, each a function from the labels of its non-empty cells to   *)
(* their values (a label outside the domain is a NaN cell).                 *)

\* pd.DataFrame(position_series): the rows are the union of the indexes
DataFrame(series) ==
    [index |-> SortedSeq(UNION {DOMAIN series[s] : s \in DOMAIN series}),
     cols  |-> series]

\* df.sort_index()
SortIndex(df) == [df EXCEPT !.index = SortedSeq(Range(df.index))]

RowOf(index, t) == CHOOSE k \in 1..Len(index) : index[k] = t

\* (variant: a NaN cell is counted as 0, as in a sum of unaligned series)
FfillColumnZero(col, index) ==
    [t \in Range(index) |-> IF t \in DOMAIN col THEN col[t] ELSE 0]

\* one column of df.ffill(): a NaN cell takes the last non-empty cell above it
FfillColumn(col, index) ==
    LET above(k) == {j \in 1..k : index[j] \in DOMAIN col}
    IN  [t \in {index[k] : k \in {i \in 1..Len(index) : above(i) # {}}} |->
            col[index[MaxOf(above(RowOf(index, t)))]]]

\* one column of df.bfill(): a NaN cell takes the first non-empty cell below it
BfillColumn(col, index) ==
    LET below(k) == {j \in k..Len(index) : index[j] \in DOMAIN col}
    IN  [t \in {index[k] : k \in {i \in 1..Len(index) : below(i) # {}}} |->
            col[index[MinOf(below(RowOf(index, t)))]]]

Ffill(df) ==
    [df EXCEPT !.cols = [s \in DOMAIN df.cols |-> FfillColumn(df.cols[s], df.index)]]

Bfill(df) ==
    [df EXCEPT !.cols = [s \in DOMAIN df.cols |-> BfillColumn(df.cols[s], df.index)]]

\* (variant: the first row is removed, whether or not it has a NaN cell)
DropnaFirstRow(df) ==
    LET kept == SubSeq(df.index, 2, Len(df.index))
    IN  [index |-> kept,
         cols  |-> [s \in DOMAIN df.cols |->
                      [t \in Range(kept) \cap DOMAIN df.cols[s] |-> df.cols[s][t]]]]

\* df.dropna(): the rows with a NaN cell are removed
Dropna(df) ==
    LET complete(t) == \A s \in DOMAIN df.cols : t \in DOMAIN df.cols[s]
        kept == SelectSeq(df.index, complete)
    IN  [index |-> kept,
         cols  |-> [s \in DOMAIN df.cols |->
                      [t \in Range(kept) |-> df.cols[s][t]]]]

\* (variant: the rows with a NaN cell are removed without any fill)
AlignInner(series) ==
    LET df == DataFrame(series)
        complete(t) == \A s \in DOMAIN df.cols : t \in DOMAIN df.cols[s]
        kept == SelectSeq(df.index, complete)
    IN  [index |-> kept,
         cols  |-> [s \in DOMAIN df.cols |->
                      [t \in Range(kept) |-> df.cols[s][t]]]]

\* lines 81-95: the alignment of the position series
Align(series) == Dropna(Bfill(Ffill(SortIndex(DataFrame(series)))))

\* df.sum(axis=1) at row t
TotalValue(df, t) ==
    SumOver(DOMAIN df.cols, [s \in DOMAIN df.cols |-> df.cols[s][t]])

\* (variant: the change is taken relative to the entry's own value)
PerformanceEntryOverValue(ts, value, initial_value) ==
    [date           |-> DateOf(ts),
     value          |-> Round2(value),
     change_percent |-> Percent(value - initial_value, value)]

\* one entry of performance_data
PerformanceEntry(ts, value, initial_value) ==
    [date           |-> DateOf(ts),
     value          |-> Round2(value),
     change_percent |-> Percent(value - initial_value, initial_value)]

\* (variant: the final value is reported as the return)
TotalReturnFinalOnly(initial_value, final_value) == Round2(final_value)

\* total_return: round(final_value - initial_value, 2)
TotalReturn(initial_value, final_value) == Round2(final_value - initial_value)

\* lines 103-129: the summary of an aligned, non-empty table
Summarize(df) ==
    LET initial_value == TotalValue(df, df.index[1])
        final_value   == TotalValue(df, df.index[Len(df.index)])
    IN  IF initial_value <= 0 THEN EmptyResult
        ELSE [data |-> [k \in 1..Len(df.index) |->
                          PerformanceEntry(df.index[k],
                                           TotalValue(df, df.index[k]),
                                           initial_value)],
              total_return         |-> TotalReturn(initial_value, final_value),
              total_return_percent |-> Percent(final_value - initial_value,
                                               initial_value)]

\* PerformanceService.calculate_portfolio_performance
calculate_portfolio_performance(ps, per) ==
    IF ps = <<>> THEN EmptyResult
    ELSE LET position_series ==
                 CollectSeries(ps, PortfolioStartDate(ps, per), Len(ps))
         IN  IF DOMAIN position_series = {} THEN EmptyResult
             ELSE LET df == Align(position_series)
                  IN  IF df.index = <<>> THEN EmptyResult
                      ELSE Summarize(df)

----------------------------------------------------------------------------
(* performance_service.py: calculate_position_performance *)

\* (variant: the period start is used as it is)
PositionStartDateUnclamped(purchase_date, per) == PeriodStart(per, purchase_date)

\* start_date = max(start_date, purchase_date)
PositionStartDate(purchase_date, per) ==
    LET start_date == PeriodStart(per, purchase_date)
    IN  IF start_date >= purchase_date THEN start_date ELSE purchase_date

\* one entry of performance_data of a position
PositionEntry(ts, close, quantity, initial_value) ==
    LET current_value == close * quantity
    IN  [date           |-> DateOf(ts),
         value          |-> Round2(current_value),
         change_percent |-> IF initial_value > 0
                            THEN Percent(current_value - initial_value, initial_value)
                            ELSE 0]

\* PerformanceService.calculate_position_performance
calculate_position_performance(symbol, quantity, purchase_price, purchase_date, per) ==
    LET hist_data == get_historical_data(symbol)
    IN  IF ~hist_data.ok \/ DOMAIN hist_data.data = {} THEN EmptyResult
        ELSE LET inWindow == FilterFrom(hist_data.data,
                                        PositionStartDate(purchase_date, per))
                 index == SortedSeq(DOMAIN inWindow)
                 initial_value == purchase_price * quantity
                 performance_data ==
                     [k \in 1..Len(index) |->
                        PositionEntry(index[k], inWindow[index[k]], quantity,
                                      initial_value)]
                 \* final_value is read back from the rounded entry (cents)
                 final_value ==
                     IF index = <<>> THEN 0
                     ELSE 5 * performance_data[Len(index)].value
             IN  IF index = <<>> THEN EmptyResult
                 ELSE [data |-> performance_data,
                       total_return |-> Round2(final_value - initial_value),
                       total_return_percent |->
                           IF initial_value > 0
                           THEN Percent(final_value - initial_value, initial_value)
                           ELSE 0]

----------------------------------------------------------------------------
(* performance_service.py: compare_with_index *)

\* the default index_symbol
IndexSymbol == "^GSPC"

\* the days the index may trade on, as offsets before Today
IndexDayOffsets == {100, 40, 20, 10}

IndexBarTimes == {Midnight(Today - o) : o \in IndexDayOffsets}

IndexHistories == UNION {[D -> {1, 2}] : D \in SUBSET IndexBarTimes}

\* what the provider can answer for the index
IndexAnswers == {NoHistory} \cup {[ok |-> TRUE, data |-> h] : h \in IndexHistories}

\* get_historical_data(index_symbol, period='2y')
get_index_data == benchmark

\* (variant: the range is open at its end)
FilterRangeOpenEnded(series, start_date, end_date) ==
    [t \in {u \in DOMAIN series : u >= start_date} |-> series[t]]

\* line 235: hist_data[(index >= start_date) & (index <= end_date)]
FilterRange(series, start_date, end_date) ==
    [t \in {u \in DOMAIN series : u >= start_date /\ u <= end_date} |-> series[t]]

\* line 245: {p['date']: p['change_percent'] for p in portfolio_performance};
\* a later entry of a date replaces an earlier one
PortfolioLookup(portfolio_performance) ==
    [d \in {portfolio_performance[k].date : k \in DOMAIN portfolio_performance} |->
        LET last == MaxOf({k \in DOMAIN portfolio_performance :
                              portfolio_performance[k].date = d})
        IN  portfolio_performance[last].change_percent]

\* lines 250-270: the loop over the index rows, from the row at the head of
\* rows on, entered with the current last_portfolio_percent
RECURSIVE ComparisonData(_, _, _, _, _)
ComparisonData(rows, hist_data, initial_price, portfolio_lookup, last_portfolio_percent) ==
    IF rows = <<>> THEN <<>>
    ELSE LET date     == Head(rows)
             date_str == DateOf(date)
             price    == hist_data[date]
             index_change_percent == Percent(price - initial_price, initial_price)
             portfolio_percent ==
                 IF date_str \in DOMAIN portfolio_lookup
                 THEN portfolio_lookup[date_str]
                 ELSE last_portfolio_percent
         IN  <<[date              |-> date_str,
                portfolio_percent |-> portfolio_percent,
                index_percent     |-> index_change_percent]>>
             \o ComparisonData(Tail(rows), hist_data, initial_price,
                               portfolio_lookup, portfolio_percent)

NoComparison == [data |-> <<>>]

\* PerformanceService.compare_with_index
compare_with_index(portfolio_performance) ==
    IF portfolio_performance = <<>> THEN NoComparison
    ELSE LET start_date == Midnight(portfolio_performance[1].date)
             end_date   ==
                 Midnight(portfolio_performance[Len(portfolio_performance)].date)
             hist_data  == get_index_data
         IN  IF ~hist_data.ok \/ DOMAIN hist_data.data = {} THEN NoComparison
             ELSE LET inRange == FilterRange(hist_data.data, start_date, end_date)
                      rows    == SortedSeq(DOMAIN inRange)
                  IN  IF rows = <<>> THEN NoComparison
                      ELSE LET initial_price == inRange[rows[1]]
                           IN  IF initial_price <= 0 THEN NoComparison
                               ELSE [data |->
                                       ComparisonData(
                                           rows, inRange, initial_price,
                                           PortfolioLookup(portfolio_performance),
                                           0)]

\* server.py compare_with_index (GET /analytics/compare-index)
compare_index_endpoint(ps, per) ==
    IF ps = <<>> THEN NoComparison
    ELSE compare_with_index(calculate_portfolio_performance(ps, per).data)

----------------------------------------------------------------------------
(* yahoo_finance.py: the exchange-rate cache and get_exchange_rate.        *)
(* Rates are in thousandths; times are seconds.                            *)

\* CACHE_DURATION
CACHE_DURATION == 300

\* the 1.0 returned for the same currency and after a failed fetch
NeutralRate == 1000

MaxCalls == 2

Callers == {"a", "b"}

Currencies == {"USD", "GBP", "EUR"}

SecondsPerDay == 24 * 60 * 60

\* the instants the clock is observed at
Instants == {0, 200, 400, SecondsPerDay}

\* _cache_timestamp = None
NoTimestamp == <<>>

\* timedelta.seconds: the seconds field of the normalised difference, the
\* days field left out
Seconds(delta) == delta % SecondsPerDay

\* (variant: the key names the target currency only)
TargetOnlyKey(from_currency, to_currency) == <<to_currency, to_currency>>

\* cache_key = f"{from_currency.upper()}{to_currency.upper()}"
CacheKey(from_currency, to_currency) == <<from_currency, to_currency>>

\* the closes ticker.history(period='1d') can end with, for a pair
Quotes(from_currency, to_currency) ==
    IF to_currency # "EUR" THEN {}
    ELSE IF from_currency = "USD" THEN {920}
    ELSE IF from_currency = "GBP" THEN {1170}
    ELSE {}

\* a caller outside get_exchange_rate
IdleFrame ==
    [pc |-> "idle", n |-> 0, from_currency |-> "EUR", to_currency |-> "EUR",
     now |-> 0, rate |-> 0, fetched_at |-> 0, returned |-> 0, exit |-> "none"]

\* the state of the module after import, nobody calling
NoExchange ==
    /\ exchange_rate_cache = <<>>
    /\ cache_timestamp = NoTimestamp
    /\ clock = 0
    /\ calls = [c \in Callers |-> IdleFrame]

\* line 35: the cache is believed fresh
CacheFresh(timestamp, now) ==
    /\ timestamp # NoTimestamp
    /\ Seconds(now - timestamp[1]) < CACHE_DURATION

\* line 52: _exchange_rate_cache[cache_key] = rate; fetched_at records when
\* the rate was fetched and is read by no code
Store(cache, cache_key, rate, fetched_at) ==
    [k \in DOMAIN cache \cup {cache_key} |->
        IF k = cache_key THEN [rate |-> rate, fetched_at |-> fetched_at]
        ELSE cache[k]]

\* a return statement: the locals are gone, the value and the statement that
\* returned it remain
Return(frame, value, exit) ==
    [frame EXCEPT !.pc = "done", !.now = 0, !.rate = 0, !.fetched_at = 0,
                  !.returned = value, !.exit = exit]

\* (variant: a failed fetch returns nothing)
FallbackNone(frame, exit) == Return(frame, 0, exit)

\* lines 48 and 60: return 1.0
Fallback(frame, exit) == Return(frame, NeutralRate, exit)

----------------------------------------------------------------------------
(* yahoo_finance.py: returns, volatility, beta and Sharpe ratio.           *)
(* A float is NaN, an infinity, or a number; a number is an exact fraction *)
(* or, where a square root enters, the exact terms under the root.         *)

Abs(n) == IF n < 0 THEN -n ELSE n

RECURSIVE GCD(_, _)
GCD(a, b) == IF b = 0 THEN a ELSE GCD(b, a % b)

\* the fraction n / d in lowest terms, d # 0
Fraction(n, d) ==
    LET g == GCD(Abs(n), Abs(d))
        s == IF d < 0 THEN -1 ELSE 1
    IN  [num |-> (s * n) \div g, den |-> (s * d) \div g]

\* x + y over the least common denominator
FAdd(x, y) ==
    LET g == GCD(x.den, y.den)
    IN  Fraction(x.num * (y.den \div g) + y.num * (x.den \div g),
                 (x.den \div g) * y.den)

FSub(x, y) == FAdd(x, [y EXCEPT !.num = -y.num])

\* x * y, the common factors taken out before multiplying
FMul(x, y) ==
    LET g == GCD(Abs(x.num), y.den)
        h == GCD(Abs(y.num), x.den)
    IN  Fraction((x.num \div g) * (y.num \div h), (x.den \div h) * (y.den \div g))

\* x / y, y # 0
FDiv(x, y) ==
    FMul(x, IF y.num < 0 THEN [num |-> -y.den, den |-> -y.num]
            ELSE [num |-> y.den, den |-> y.num])

\* the sum of a sequence of fractions
RECURSIVE FSum(_)
FSum(xs) == IF xs = <<>> THEN Fraction(0, 1) ELSE FAdd(Head(xs), FSum(Tail(xs)))

NaN == [kind |-> "nan"]

\* inf or -inf
Infinity(sign) == [kind |-> "inf", sign |-> sign]

\* a float that is the fraction x
Exact(x) == [kind |-> "num", form |-> "exact", val |-> x]

Zero == Exact(Fraction(0, 1))

One == Exact(Fraction(1, 1))

IsFinite(x) == x.kind = "num"

\* the values of a series in index order
ValuesOf(series) ==
    LET index == SortedSeq(DOMAIN series)
    IN  [k \in 1..Len(index) |-> series[index[k]]]

\* Series.mean() of a non-empty sequence
Mean(xs) == FDiv(FSum(xs), Fraction(Len(xs), 1))

\* Series.cov(): the sample covariance (ddof = 1) of two sequences of one
\* length >= 2
Covariance(xs, ys) ==
    LET mx == Mean(xs)
        my == Mean(ys)
    IN  FDiv(FSum([k \in 1..Len(xs) |-> FMul(FSub(xs[k], mx), FSub(ys[k], my))]),
             Fraction(Len(xs) - 1, 1))

\* (variant: the population variance, ddof = 0)
PopulationVariance(xs) ==
    FDiv(FMul(Covariance(xs, xs), Fraction(Len(xs) - 1, 1)), Fraction(Len(xs), 1))

\* Series.var(): the sample variance (ddof = 1), length >= 2
Variance(xs) == Covariance(xs, xs)

\* calculate_returns: prices.pct_change().dropna()
calculate_returns(prices) ==
    LET index == SortedSeq(DOMAIN prices)
    IN  [t \in {index[k] : k \in 2..Len(index)} |->
            LET k == RowOf(index, t)
            IN  Fraction(prices[t] - prices[index[k - 1]], prices[index[k - 1]])]

\* Series.std() * sqrt(252) * 100 for a variance: 0.0 when the variance is 0,
\* else the number whose square is 252 * 10000 * variance
AnnualizedPercent(variance) ==
    IF variance.num = 0 THEN Zero
    ELSE [kind |-> "num", form |-> "volatility", variance |-> variance,
          digits |-> "all"]

\* calculate_volatility(returns, annualize=True); the std of fewer than two
\* values is NaN
calculate_volatility(returns) ==
    LET xs == ValuesOf(returns)
    IN  IF Len(xs) < 2 THEN NaN ELSE AnnualizedPercent(Variance(xs))

\* (variant: the market dates, the asset's missing returns taken as 0)
AlignOnMarket(asset_returns, market_returns) ==
    [asset  |-> [t \in DOMAIN market_returns |->
                    IF t \in DOMAIN asset_returns THEN asset_returns[t]
                    ELSE Fraction(0, 1)],
     market |-> market_returns]

\* lines 131-134: DataFrame({'asset', 'market'}).dropna(): the rows in which
\* both series have a value
AlignReturns(asset_returns, market_returns) ==
    LET common == DOMAIN asset_returns \cap DOMAIN market_returns
    IN  [asset  |-> [t \in common |-> asset_returns[t]],
         market |-> [t \in common |-> market_returns[t]]]

\* calculate_beta
calculate_beta(asset_returns, market_returns) ==
    LET aligned == AlignReturns(asset_returns, market_returns)
        asset   == ValuesOf(aligned.asset)
        market_ == ValuesOf(aligned.market)
    IN  IF Len(market_) < 2 THEN One
        ELSE LET covariance      == Covariance(asset, market_)
                 market_variance == Variance(market_)
             IN  IF market_variance.num = 0 THEN One
                 ELSE Exact(FDiv(covariance, market_variance))

\* the default risk_free_rate of calculate_sharpe_ratio, 0.02, per trading day
DailyRiskFree == Fraction(2, 100 * 252)

\* a float divided by a float as numpy divides: x / 0.0 is an infinity of the
\* sign of x, 0.0 / 0.0 is NaN, and no exception is raised
SharpeOf(excess_mean, variance) ==
    IF variance.num = 0
    THEN IF excess_mean.num = 0 THEN NaN
         ELSE Infinity(IF excess_mean.num > 0 THEN 1 ELSE -1)
    ELSE IF excess_mean.num = 0 THEN Zero
    ELSE [kind |-> "num", form |-> "sharpe", excess |-> excess_mean,
          variance |-> variance, digits |-> "all"]

\* YahooFinanceService.calculate_sharpe_ratio; the mean of no value and the
\* std of fewer than two values are NaN
yf_service_calculate_sharpe_ratio(returns) ==
    LET xs == ValuesOf(returns)
    IN  IF Len(xs) < 2 THEN NaN
        ELSE SharpeOf(FSub(Mean(xs), DailyRiskFree), Variance(xs))

----------------------------------------------------------------------------
(* portfolio_analytics.py: the portfolio metrics *)

\* the rate of calculate_sharpe_ratio_custom, in percent (the default 3.0)
risk_free_rate == Fraction(3, 1)

\* get_historical_data(symbol, f'{days}d'): the bars of the last days days
RecentData(symbol, days) ==
    LET hist_data == get_historical_data(symbol)
    IN  IF ~hist_data.ok THEN hist_data
        ELSE [hist_data EXCEPT !.data = FilterFrom(@, Now - Days(days))]

\* get_market_data(market_index): the closes of the index, or None
get_market_data == benchmark

TotalOf(ps, field) == SumOver(DOMAIN ps, [i \in DOMAIN ps |-> ps[i][field]])

\* round(x, 2) of a float. NaN and the infinities round to themselves; a
\* volatility below 0.005 rounds to 0.0; the other magnitudes under a root
\* are marked as rounded
Round2Float(x) ==
    IF x.kind # "num" THEN x
    ELSE IF x.form = "exact"
         THEN Exact(Fraction(RoundDiv(100 * x.val.num, x.val.den), 100))
    ELSE IF x.form = "volatility"
              /\ x.variance.num <= ((x.variance.den - 1) \div 100800) \div 1000000
         THEN Zero
    ELSE [x EXCEPT !.digits = "2"]

\* {'historical': 0.0, 'realized': 0.0}
NeutralVolatility == [historical |-> Zero, realized |-> Zero]

\* the positions whose history is not None and not empty, in list order
WithHistory(ps) ==
    SortedSeq({i \in DOMAIN ps :
                  LET hist_data == get_historical_data(ps[i].symbol)
                  IN  hist_data.ok /\ DOMAIN hist_data.data # {}})

\* lines 20-32, 156-171 and 274-286: total_value is summed over all the
\* positions; the loop divides by it for each position with a history, which
\* raises ZeroDivisionError when it is 0
CollectReturns(ps) ==
    LET total_value == TotalOf(ps, "total_value")
        held        == WithHistory(ps)
    IN  IF held # <<>> /\ total_value = 0
        THEN [raised |-> TRUE, weights |-> <<>>, returns_data |-> <<>>]
        ELSE [raised  |-> FALSE,
              weights |-> [k \in 1..Len(held) |->
                              Fraction(ps[held[k]].total_value, total_value)],
              returns_data |->
                  [k \in 1..Len(held) |->
                      calculate_returns(
                          get_historical_data(ps[held[k]].symbol).data)]]

\* lines 37-40: the weighted sum over an index, each series reindexed to it
\* with fill_value=0
CombineReturns(index, weights, returns_data) ==
    [t \in index |->
        FSum([k \in 1..Len(weights) |->
                FMul(weights[k],
                     IF t \in DOMAIN returns_data[k] THEN returns_data[k][t]
                     ELSE Fraction(0, 1))])]

\* PortfolioAnalytics.calculate_portfolio_volatility
calculate_portfolio_volatility(ps) ==
    LET collected == CollectReturns(ps)
    IN  IF collected.raised \/ collected.returns_data = <<>>
        THEN NeutralVolatility
        ELSE LET portfolio_returns ==
                     CombineReturns(DOMAIN collected.returns_data[1],
                                    collected.weights, collected.returns_data)
             IN  [historical |-> Round2Float(calculate_volatility(portfolio_returns)),
                  realized   |-> Zero]

\* lines 64-84: the weight and the returns of each position held for two days
\* or more whose history since the purchase has two rows or more
RealizedReturns(ps) ==
    LET total_value == TotalOf(ps, "total_value")
        days_held(i) == (Now - ps[i].purchase_date) \div TicksPerDay
        kept == SortedSeq({i \in DOMAIN ps :
                    /\ days_held(i) >= 2
                    /\ LET hist_data == RecentData(ps[i].symbol, days_held(i))
                       IN  hist_data.ok /\ Cardinality(DOMAIN hist_data.data) >= 2})
    IN  [weights |-> [k \in 1..Len(kept) |->
                         Fraction(ps[kept[k]].total_value, total_value)],
         returns_data |->
             [k \in 1..Len(kept) |->
                 ValuesOf(calculate_returns(
                     RecentData(ps[kept[k]].symbol, days_held(kept[k])).data))]]

\* PortfolioAnalytics.calculate_realized_volatility
calculate_realized_volatility(ps) ==
    IF ps = <<>> THEN Zero
    ELSE IF TotalOf(ps, "total_value") = 0 THEN Zero
    ELSE LET collected == RealizedReturns(ps)
             lengths == {Len(collected.returns_data[k]) :
                            k \in DOMAIN collected.returns_data}
         IN  IF collected.returns_data = <<>> THEN Zero
             ELSE IF MinOf(lengths) < 2 THEN Zero
             ELSE LET min_length == MinOf(lengths)
                      \* returns.tail(min_length).reset_index(drop=True)
                      recent(k) == SubSeq(collected.returns_data[k],
                                          Len(collected.returns_data[k]) - min_length + 1,
                                          Len(collected.returns_data[k]))
                      combined_returns ==
                          [j \in 1..min_length |->
                              FSum([k \in DOMAIN collected.weights |->
                                      FMul(collected.weights[k], recent(k)[j])])]
                  IN  Round2Float(AnnualizedPercent(Variance(combined_returns)))

\* a float divided by the historical volatility (line 136)
OverVolatility(numerator, historical_vol) ==
    IF historical_vol.kind = "nan" THEN NaN
    ELSE IF numerator.num = 0 THEN Zero
    ELSE [kind |-> "num", form |-> "ratio", numerator |-> numerator,
          volatility |-> historical_vol, digits |-> "all"]

\* PortfolioAnalytics.calculate_sharpe_ratio_custom
calculate_sharpe_ratio_custom(ps) ==
    IF ps = <<>> THEN Zero
    ELSE LET total_value    == TotalOf(ps, "total_value")
             total_invested == TotalOf(ps, "invested")
         IN  IF total_invested = 0 THEN Zero
             ELSE LET portfolio_return ==
                          Fraction(100 * (total_value - total_invested), total_invested)
                      historical_vol == calculate_portfolio_volatility(ps).historical
                  IN  IF historical_vol = Zero THEN Zero
                      ELSE Round2Float(
                               OverVolatility(FSub(portfolio_return, risk_free_rate),
                                              historical_vol))

\* PortfolioAnalytics.calculate_portfolio_beta
calculate_portfolio_beta(ps) ==
    LET market_data == get_market_data
    IN  IF ~market_data.ok \/ DOMAIN market_data.data = {} THEN One
        ELSE LET market_returns == calculate_returns(market_data.data)
                 collected == CollectReturns(ps)
             IN  IF collected.raised \/ collected.returns_data = <<>> THEN One
                 ELSE LET portfolio_returns ==
                              CombineReturns(DOMAIN market_returns,
                                             collected.weights,
                                             collected.returns_data)
                      IN  Round2Float(calculate_beta(portfolio_returns,
                                                     market_returns))

\* PortfolioAnalytics.calculate_sharpe_ratio
calculate_sharpe_ratio(ps) ==
    LET collected == CollectReturns(ps)
    IN  IF collected.raised \/ collected.returns_data = <<>> THEN Zero
        ELSE LET portfolio_returns ==
                     CombineReturns(DOMAIN collected.returns_data[1],
                                    collected.weights, collected.returns_data)
             IN  Round2Float(yf_service_calculate_sharpe_ratio(portfolio_returns))

----------------------------------------------------------------------------
(* server.py: the portfolio summary and the performance endpoint *)

\* get_current_price(symbol), or the fallback when it is None
CurrentPriceOr(symbol, fallback) ==
    LET data == get_historical_data(symbol)
    IN  IF data.ok /\ DOMAIN data.data # {}
        THEN data.data[MaxOf(DOMAIN data.data)]
        ELSE fallback

\* lines 566-592: a position of the database with its value and its cost
Enrich(pos) ==
    [symbol        |-> pos.symbol,
     total_value   |-> pos.quantity * CurrentPriceOr(pos.symbol, pos.avg_price),
     invested      |-> pos.quantity * pos.avg_price,
     quantity      |-> pos.quantity,
     purchase_date |-> pos.purchase_date]

\* (variant: a user without positions is given a beta of 0)
EmptySummaryZeroBeta ==
    [volatility |-> NeutralVolatility, beta |-> Zero, sharpe_ratio |-> Zero,
     positions_value |-> 0, total_invested |-> 0]

\* lines 506-561: the summary of a user without positions (the cash fields
\* are left out)
EmptySummary ==
    [volatility |-> NeutralVolatility, beta |-> One, sharpe_ratio |-> Zero,
     positions_value |-> 0, total_invested |-> 0]

\* get_portfolio_summary (the metrics and the two totals of its answer)
get_portfolio_summary(ps) ==
    IF ps = <<>> THEN EmptySummary
    ELSE LET enriched_positions == [i \in DOMAIN ps |-> Enrich(ps[i])]
         IN  [volatility |->
                  [calculate_portfolio_volatility(enriched_positions)
                      EXCEPT !.realized =
                          calculate_realized_volatility(enriched_positions)],
              beta            |-> calculate_portfolio_beta(enriched_positions),
              sharpe_ratio    |-> calculate_sharpe_ratio_custom(enriched_positions),
              positions_value |-> Round2(TotalOf(enriched_positions, "total_value")),
              total_invested  |-> Round2(TotalOf(enriched_positions, "invested"))]

\* get_performance without a symbol: the positions with a current price
get_performance(ps, per) ==
    IF ps = <<>> THEN EmptyResult
    ELSE calculate_portfolio_performance(
             SelectSeq(ps, LAMBDA pos : CurrentPriceOr(pos.symbol, 0) # 0), per)

----------------------------------------------------------------------------
(* portfolio_analytics.py: generate_recommendations *)

\* a key the dictionary does not have
Absent == [kind |-> "absent"]

\* d.get(key, default)
Get(d, key, default) == IF d[key] = Absent THEN default ELSE d[key]

\* x < y as Python compares two floats: False whenever one is NaN
Less(x, y) ==
    IF x.kind = "nan" \/ y.kind = "nan" THEN FALSE
    ELSE IF x.kind = "inf" THEN x.sign < 0 /\ ~(y.kind = "inf" /\ y.sign < 0)
    ELSE IF y.kind = "inf" THEN y.sign > 0
    ELSE x.val.num * y.val.den < y.val.num * x.val.den

\* x <= y
LessEq(x, y) == Less(x, y) \/ (x.kind # "nan" /\ x = y)

\* the float literal hundredths / 100
Literal(hundredths) == Exact(Fraction(hundredths, 100))

\* lines 313-318
ConcentrationItem(position) ==
    [type |-> "warning", title |-> "Concentration elevee", priority |-> "high",
     about |-> position.symbol]

\* lines 323-328
VolatilityItem(position) ==
    [type |-> "info", title |-> "Volatilite elevee", priority |-> "medium",
     about |-> position.symbol]

\* lines 333-338
BalancedBetaItem ==
    [type |-> "success", title |-> "Bonne exposition au marche", priority |-> "low",
     about |-> "portfolio"]

\* lines 340-345
HighBetaItem ==
    [type |-> "warning", title |-> "Exposition au marche elevee", priority |-> "high",
     about |-> "portfolio"]

\* lines 350-355
SharpeItem ==
    [type |-> "success", title |-> "Bon rendement ajuste au risque", priority |-> "low",
     about |-> "portfolio"]

\* line 312: weight > 40, weight being (total_value / total) * 100
Concentrated(position, total_value) == 100 * position.total_value > 40 * total_value

\* lines 310-318: the warnings of the concentrated positions, in list order
ConcentrationWarnings(ps, total_value) ==
    LET Warned(position) == Concentrated(position, total_value)
        warned == SelectSeq(ps, Warned)
    IN  [k \in DOMAIN warned |-> ConcentrationItem(warned[k])]

\* lines 321-328: the notices of the positions whose volatility is above 50
VolatilityNotices(ps) ==
    LET Volatile(position) == Less(Literal(5000), Get(position, "volatility", Zero))
        volatile == SelectSeq(ps, Volatile)
    IN  [k \in DOMAIN volatile |-> VolatilityItem(volatile[k])]

\* lines 331-345
BetaItems(metrics) ==
    LET beta == Get(metrics, "beta", One)
    IN  IF LessEq(Literal(90), beta) /\ LessEq(beta, Literal(130))
        THEN <<BalancedBetaItem>>
        ELSE IF Less(Literal(150), beta) THEN <<HighBetaItem>>
        ELSE <<>>

\* lines 348-355
SharpeItems(metrics) ==
    LET sharpe == Get(metrics, "sharpe_ratio", Zero)
    IN  IF Less(One, sharpe) THEN <<SharpeItem>> ELSE <<>>

\* PortfolioAnalytics.generate_recommendations: the division of line 311
\* raises ZeroDivisionError at the first position when the total is 0, and the
\* except clause of line 357 returns the list as it is then, which is empty
generate_recommendations(ps, metrics) ==
    LET total_value == TotalOf(ps, "total_value")
    IN  IF ps # <<>> /\ total_value = 0 THEN <<>>
        ELSE ConcentrationWarnings(ps, total_value) \o VolatilityNotices(ps)
                 \o BetaItems(metrics) \o SharpeItems(metrics)

----------------------------------------------------------------------------
(* server.py: the database and add_position *)

\* the positions db.positions may hold
MaxDocuments == 2

\* the requests served at the same time
Requests == {"r1", "r2"}

\* the fields of the request body of add_position (models.py, PositionCreate)
PositionCreateFields ==
    {"symbol", "type", "transaction_type", "quantity", "avg_price",
     "purchase_date", "portfolio_id"}

\* the attributes add_position reads from position_data up to line 200
AttributesRead ==
    {"symbol", "purchase_date", "portfolio_id", "quantity", "avg_price",
     "transaction_type", "link_to_cash", "cash_currency"}

\* a request that has not arrived
IdleRequest ==
    [pc |-> "idle", symbol |-> "", transaction_type |-> "buy", quantity |-> 0,
     avg_price |-> 0, ticker_info |-> FALSE, status |-> 0]

\* the answer to a request: raise HTTPException(status_code) of lines 170,
\* 213 and 218, or the 500 of an exception nobody catches
Answer(position_data, status) ==
    [position_data EXCEPT !.pc = "done", !.status = status]

\* lines 167-200 for a request that names its portfolio: the ticker is looked
\* up, then the attributes of position_data are read one after the other; a
\* pydantic model has no attribute outside its fields, so reading one raises
\* AttributeError. A request that passes goes on to line 204.
ReadRequest(position_data, ticker_info) ==
    IF ~ticker_info THEN Answer(position_data, 404)
    ELSE IF ~(AttributesRead \subseteq PositionCreateFields)
         THEN Answer([position_data EXCEPT !.ticker_info = TRUE], 500)
    ELSE [position_data EXCEPT !.ticker_info = TRUE, !.pc = "find_position"]

\* lines 107-114 and 490-499: find({"quantity": {"$gt": 0}})
CurrentPositions(docs) ==
    LET Held(pos) == pos.quantity > 0
    IN  SelectSeq(docs, Held)

\* get_positions: each current position with its rounded total_value (cents)
get_positions(docs) ==
    LET rows == CurrentPositions(docs)
    IN  [i \in DOMAIN rows |->
            [symbol      |-> rows[i].symbol,
             quantity    |-> rows[i].quantity,
             total_value |-> Round2(Enrich(rows[i]).total_value)]]

\* lines 517-528 and 645-657: the balances of the cash accounts, in EUR (the
\* accounts of the model are in EUR, which convert_to_eur returns as it is)
TotalCashEur(accounts) ==
    SumOver(DOMAIN accounts, [i \in DOMAIN accounts |-> accounts[i].balance])

\* get_portfolio_summary: the three totals of its answer, in cents; without
\* positions (lines 506-545) the total is the cash, with positions (lines
\* 659-667) it is their value plus the cash
SummaryTotals(docs, accounts) ==
    LET rows == CurrentPositions(docs)
        total_cash_eur == TotalCashEur(accounts)
        total_value == TotalOf([i \in DOMAIN rows |-> Enrich(rows[i])], "total_value")
    IN  IF rows = <<>>
        THEN [total_value |-> Round2(total_cash_eur), positions_value |-> 0,
              cash_value |-> Round2(total_cash_eur)]
        ELSE [total_value |-> Round2(total_value + total_cash_eur),
              positions_value |-> Round2(total_value),
              cash_value |-> Round2(total_cash_eur)]

\* an empty database, nobody asking
NoLedger ==
    /\ portfolio_metrics = [beta |-> Absent, sharpe_ratio |-> Absent]
    /\ db_positions = <<>>
    /\ db_transactions = <<>>
    /\ db_cash_accounts = <<>>
    /\ db_cash_transactions = <<>>
    /\ requests = [r \in Requests |-> IdleRequest]

----------------------------------------------------------------------------
(* The state machine: the market answers are fixed for a run; a run is one *)
(* call of the service.                                                    *)

Init ==
    /\ market \in Markets
    /\ positions = <<>>
    /\ period = "all"
    /\ op = "none"
    /\ target = CHOOSE h \in Holdings : TRUE
    /\ result = EmptyResult
    /\ benchmark = NoHistory
    /\ NoExchange
    /\ NoLedger

CalculatePortfolioPerformance ==
    /\ op = "none"
    /\ \E ps \in PositionLists, per \in Periods :
         /\ positions' = ps
         /\ period' = per
         /\ result' = calculate_portfolio_performance(ps, per)
    /\ op' = "portfolio"
    /\ UNCHANGED <<market, target, benchmark, fxVars, dbVars>>

CalculatePositionPerformance ==
    /\ op = "none"
    /\ \E h \in Holdings, per \in Periods :
         /\ target' = h
         /\ period' = per
         /\ result' = calculate_position_performance(
                          h.symbol, h.quantity, h.avg_price, h.purchase_date, per)
    /\ op' = "position"
    /\ UNCHANGED <<market, positions, benchmark, fxVars, dbVars>>

\* lines 28-34: the call is entered; the same currency returns at once,
\* otherwise now is read from the clock
Call(c) ==
    /\ calls[c].pc \in {"idle", "done"}
    /\ calls[c].n < MaxCalls
    /\ \E from_currency \in Currencies :
         LET frame == [IdleFrame EXCEPT !.n = calls[c].n + 1,
                                        !.from_currency = from_currency,
                                        !.now = clock]
         IN  calls' = [calls EXCEPT ![c] =
                          IF from_currency = frame.to_currency
                          THEN Return(frame, NeutralRate, "same_currency")
                          ELSE [frame EXCEPT !.pc = "check"]]
    /\ UNCHANGED <<exchange_rate_cache, cache_timestamp, clock, serviceVars, dbVars>>

\* line 35: _cache_timestamp is read and compared with now
CheckTimestamp(c) ==
    /\ calls[c].pc = "check"
    /\ calls' = [calls EXCEPT ![c].pc =
                    IF CacheFresh(cache_timestamp, calls[c].now)
                    THEN "lookup" ELSE "fetch"]
    /\ UNCHANGED <<exchange_rate_cache, cache_timestamp, clock, serviceVars, dbVars>>

\* lines 36-37: the key is looked up and its rate returned (no statement
\* of the module removes a key)
Lookup(c) ==
    /\ calls[c].pc = "lookup"
    /\ LET cache_key == CacheKey(calls[c].from_currency, calls[c].to_currency)
       IN  calls' = [calls EXCEPT ![c] =
                        IF cache_key \in DOMAIN exchange_rate_cache
                        THEN Return(@, exchange_rate_cache[cache_key].rate, "cache")
                        ELSE [@ EXCEPT !.pc = "fetch"]]
    /\ UNCHANGED <<exchange_rate_cache, cache_timestamp, clock, serviceVars, dbVars>>

\* lines 41-50: the fetch raises, answers no rows, or answers a close
Fetch(c) ==
    /\ calls[c].pc = "fetch"
    /\ \/ calls' = [calls EXCEPT ![c] = Fallback(@, "error")]
       \/ calls' = [calls EXCEPT ![c] = Fallback(@, "no_data")]
       \/ \E rate \in Quotes(calls[c].from_currency, calls[c].to_currency) :
            calls' = [calls EXCEPT ![c] = [@ EXCEPT !.pc = "store",
                                                    !.rate = rate,
                                                    !.fetched_at = clock]]
    /\ UNCHANGED <<exchange_rate_cache, cache_timestamp, clock, serviceVars, dbVars>>

\* line 52: the rate is stored under the key
StoreRate(c) ==
    /\ calls[c].pc = "store"
    /\ exchange_rate_cache' =
           Store(exchange_rate_cache,
                 CacheKey(calls[c].from_currency, calls[c].to_currency),
                 calls[c].rate, calls[c].fetched_at)
    /\ calls' = [calls EXCEPT ![c].pc = "stamp"]
    /\ UNCHANGED <<cache_timestamp, clock, serviceVars, dbVars>>

\* lines 53-56: the timestamp becomes the now of this call; the rate is
\* returned
StampAndReturn(c) ==
    /\ calls[c].pc = "stamp"
    /\ cache_timestamp' = <<calls[c].now>>
    /\ calls' = [calls EXCEPT ![c] = Return(@, calls[c].rate, "fetched")]
    /\ UNCHANGED <<exchange_rate_cache, clock, serviceVars, dbVars>>

\* time passes
Tick ==
    /\ \E t \in Instants : t > clock /\ clock' = t
    /\ UNCHANGED <<exchange_rate_cache, cache_timestamp, calls, serviceVars, dbVars>>

\* the service is idle, the cache is in use
InitFx ==
    /\ market = [s \in Symbols |-> NoHistory]
    /\ positions = <<>>
    /\ period = "all"
    /\ op = "none"
    /\ target = CHOOSE h \in Holdings : TRUE
    /\ result = EmptyResult
    /\ benchmark = NoHistory
    /\ NoExchange
    /\ NoLedger

NextFx ==
    \/ \E c \in Callers : Call(c)
    \/ \E c \in Callers : CheckTimestamp(c)
    \/ \E c \in Callers : Lookup(c)
    \/ \E c \in Callers : Fetch(c)
    \/ \E c \in Callers : StoreRate(c)
    \/ \E c \in Callers : StampAndReturn(c)
    \/ Tick

SpecFx == InitFx /\ [][NextFx]_vars

\* GET /analytics/compare-index, on a portfolio of the calendar-free symbol
CompareMarkets == {m \in Markets : m["AAPL"] = NoHistory}

ComparePositionLists ==
    {ps \in PositionLists : \A i \in DOMAIN ps : ps[i].symbol = "BTC-EUR"}

InitCompare ==
    /\ market \in CompareMarkets
    /\ positions = <<>>
    /\ period = "all"
    /\ op = "none"
    /\ target = CHOOSE h \in Holdings : TRUE
    /\ result = EmptyResult
    /\ benchmark \in IndexAnswers
    /\ NoExchange
    /\ NoLedger

CompareWithIndex ==
    /\ op = "none"
    /\ \E ps \in ComparePositionLists, per \in Periods :
         /\ positions' = ps
         /\ period' = per
         /\ result' = compare_index_endpoint(ps, per)
    /\ op' = "compare"
    /\ UNCHANGED <<market, target, benchmark, fxVars, dbVars>>

NextCompare == CompareWithIndex

SpecCompare == InitCompare /\ [][NextCompare]_vars

\* the enriched positions handed to the analytics operations
AnalyticsHoldings ==
    LET early == MinOf({h.purchase_date : h \in Holdings})
        late  == MaxOf({h.purchase_date : h \in Holdings})
    IN  {[symbol |-> "AAPL", total_value |-> 2, invested |-> 1, quantity |-> 1,
          purchase_date |-> early],
         [symbol |-> "BTC-EUR", total_value |-> 0, invested |-> 0, quantity |-> 1,
          purchase_date |-> early],
         [symbol |-> "BTC-EUR", total_value |-> 2, invested |-> 4, quantity |-> 1,
          purchase_date |-> late]}

AnalyticsPositionLists == UNION {[1..n -> AnalyticsHoldings] : n \in 0..MaxPositions}

\* the positions of the database read by the endpoints
DbPositionLists ==
    {ps \in PositionLists : \A i \in DOMAIN ps : ps[i].quantity < 1000}

\* what the provider answers to the analytics: no table, an empty one, one
\* with a single bar, and those of two and of three bars opening at 1
AnalyticsAnswers(symbol) ==
    {a \in Answers(symbol) :
        \/ ~a.ok
        \/ DOMAIN a.data = {}
        \/ DOMAIN a.data = {Midnight(Today - 10)} /\ a.data[Midnight(Today - 10)] = 1
        \/ DOMAIN a.data = {Midnight(Today - 40), Midnight(Today - 10)}
             /\ a.data[Midnight(Today - 40)] = 1
        \/ DOMAIN a.data = BarTimes /\ a.data[Midnight(Today - 100)] = 1}

AnalyticsIndexAnswers ==
    {a \in IndexAnswers :
        \/ ~a.ok
        \/ DOMAIN a.data = {Midnight(Today - 10)} /\ a.data[Midnight(Today - 10)] = 1
        \/ DOMAIN a.data \in {BarTimes, IndexBarTimes}
             /\ a.data[Midnight(Today - 100)] = 1}

InitAnalytics ==
    /\ market \in [Symbols -> UNION {AnalyticsAnswers(s) : s \in Symbols}]
    /\ \A s \in Symbols : market[s] \in AnalyticsAnswers(s)
    /\ positions = <<>>
    /\ period = "all"
    /\ op = "none"
    /\ target = CHOOSE h \in Holdings : TRUE
    /\ result = EmptyResult
    /\ benchmark \in AnalyticsIndexAnswers
    /\ NoExchange
    /\ NoLedger

CalculatePortfolioVolatility ==
    /\ op = "none"
    /\ \E ps \in AnalyticsPositionLists :
         /\ positions' = ps
         /\ result' = calculate_portfolio_volatility(ps)
    /\ op' = "volatility"
    /\ UNCHANGED <<market, period, target, benchmark, fxVars, dbVars>>

CalculateRealizedVolatility ==
    /\ op = "none"
    /\ \E ps \in AnalyticsPositionLists :
         /\ positions' = ps
         /\ result' = calculate_realized_volatility(ps)
    /\ op' = "realized"
    /\ UNCHANGED <<market, period, target, benchmark, fxVars, dbVars>>

CalculateSharpeRatioCustom ==
    /\ op = "none"
    /\ \E ps \in AnalyticsPositionLists :
         /\ positions' = ps
         /\ result' = calculate_sharpe_ratio_custom(ps)
    /\ op' = "sharpe_custom"
    /\ UNCHANGED <<market, period, target, benchmark, fxVars, dbVars>>

CalculatePortfolioBeta ==
    /\ op = "none"
    /\ \E ps \in AnalyticsPositionLists :
         /\ positions' = ps
         /\ result' = calculate_portfolio_beta(ps)
    /\ op' = "beta"
    /\ UNCHANGED <<market, period, target, benchmark, fxVars, dbVars>>

CalculateSharpeRatio ==
    /\ op = "none"
    /\ \E ps \in AnalyticsPositionLists :
         /\ positions' = ps
         /\ result' = calculate_sharpe_ratio(ps)
    /\ op' = "sharpe"
    /\ UNCHANGED <<market, period, target, benchmark, fxVars, dbVars>>

GetPortfolioSummary ==
    /\ op = "none"
    /\ \E ps \in DbPositionLists :
         /\ positions' = ps
         /\ result' = get_portfolio_summary(ps)
    /\ op' = "summary"
    /\ UNCHANGED <<market, period, target, benchmark, fxVars, dbVars>>

GetPerformance ==
    /\ op = "none"
    /\ \E ps \in DbPositionLists, per \in Periods :
         /\ positions' = ps
         /\ period' = per
         /\ result' = get_performance(ps, per)
    /\ op' = "performance"
    /\ UNCHANGED <<market, target, benchmark, fxVars, dbVars>>

\* calculate_beta on the returns of a symbol and of the index, as
\* calculate_position_beta calls it
CalculateBeta ==
    /\ op = "none"
    /\ benchmark.ok
    /\ \E h \in Holdings :
         /\ h = (CHOOSE g \in Holdings : g.symbol = h.symbol)
         /\ market[h.symbol].ok
         /\ target' = h
         /\ result' = calculate_beta(calculate_returns(market[h.symbol].data),
                                     calculate_returns(benchmark.data))
    /\ op' = "calculate_beta"
    /\ UNCHANGED <<market, positions, period, benchmark, fxVars, dbVars>>

\* yf_service.calculate_sharpe_ratio on the returns of a symbol
CalculateSharpeRatioOfReturns ==
    /\ op = "none"
    /\ \E h \in Holdings :
         /\ h = (CHOOSE g \in Holdings : g.symbol = h.symbol)
         /\ market[h.symbol].ok
         /\ target' = h
         /\ result' = yf_service_calculate_sharpe_ratio(
                          calculate_returns(market[h.symbol].data))
    /\ op' = "yf_sharpe"
    /\ UNCHANGED <<market, positions, period, benchmark, fxVars, dbVars>>

\* calculate_beta on one series as asset and as market: the beta of a
\* position in the benchmark index itself
CalculateSelfBeta ==
    /\ op = "none"
    /\ \E h \in Holdings :
         /\ h = (CHOOSE g \in Holdings : g.symbol = h.symbol)
         /\ market[h.symbol].ok
         /\ target' = h
         /\ result' = calculate_beta(calculate_returns(market[h.symbol].data),
                                     calculate_returns(market[h.symbol].data))
    /\ op' = "self_beta"
    /\ UNCHANGED <<market, positions, period, benchmark, fxVars, dbVars>>

NextAnalytics ==
    \/ CalculatePortfolioVolatility
    \/ CalculateRealizedVolatility
    \/ CalculateSharpeRatioCustom
    \/ CalculatePortfolioBeta
    \/ CalculateSharpeRatio
    \/ GetPortfolioSummary
    \/ GetPerformance
    \/ CalculateBeta
    \/ CalculateSharpeRatioOfReturns
    \/ CalculateSelfBeta

SpecAnalytics == InitAnalytics /\ [][NextAnalytics]_vars

\* the enriched positions handed to generate_recommendations
RecommendationHoldings ==
    {[symbol |-> s, total_value |-> v, volatility |-> vol] :
        s \in Symbols, v \in {0, 2, 3},
        vol \in {Absent, NaN, Literal(5000), Literal(5001)}}

RecommendationPositionLists ==
    UNION {[1..n -> RecommendationHoldings] : n \in 0..MaxPositions}

\* the summaries handed to generate_recommendations
Metrics ==
    {[beta |-> b, sharpe_ratio |-> s] :
        b \in {Absent, NaN, Literal(89), Literal(90), Literal(130), Literal(131),
               Literal(150), Literal(151)},
        s \in {Absent, One, Literal(101)}}

InitRecommendations ==
    /\ market = [s \in Symbols |-> NoHistory]
    /\ positions = <<>>
    /\ period = "all"
    /\ op = "none"
    /\ target = CHOOSE h \in Holdings : TRUE
    /\ result = EmptyResult
    /\ benchmark = NoHistory
    /\ NoExchange
    /\ NoLedger

GenerateRecommendations ==
    /\ op = "none"
    /\ \E ps \in RecommendationPositionLists, metrics \in Metrics :
         /\ positions' = ps
         /\ portfolio_metrics' = metrics
         /\ result' = generate_recommendations(ps, metrics)
    /\ op' = "recommendations"
    /\ UNCHANGED <<market, period, target, benchmark, fxVars, db_positions,
                   db_transactions, db_cash_accounts, db_cash_transactions, requests>>

NextRecommendations == GenerateRecommendations

SpecRecommendations == InitRecommendations /\ [][NextRecommendations]_vars

\* the rows import_csv may insert, one after the other: a symbol, a quantity
\* (0 when the column is missing) and an average price in fine units
ImportedRows ==
    {[symbol |-> s, quantity |-> q,
      avg_price |-> IF s = "AAPL" THEN 1 ELSE 500,
      purchase_date |-> Midnight(Today - 40) + 1] :
        s \in Symbols, q \in {0, 2}}

\* the amounts update_cash_account may set, in fine units: 1.00 and 100.00
CashAmounts == {500, 50000}

\* the bodies of the requests to add_position: a purchase or a sale of 1 or
\* 3 units at 1.00
PositionData ==
    {[IdleRequest EXCEPT !.pc = "received", !.symbol = s, !.transaction_type = t,
                         !.quantity = q, !.avg_price = 500] :
        s \in Symbols, t \in {"buy", "sell"}, q \in {1, 3}}

\* the provider quotes AAPL at 2 fine units and has nothing for BTC-EUR
InitLedger ==
    /\ market = [s \in Symbols |->
                    IF s = "AAPL"
                    THEN [ok |-> TRUE, data |-> [t \in {Midnight(Today - 10)} |-> 2]]
                    ELSE NoHistory]
    /\ positions = <<>>
    /\ period = "all"
    /\ op = "none"
    /\ target = CHOOSE h \in Holdings : TRUE
    /\ result = EmptyResult
    /\ benchmark = NoHistory
    /\ NoExchange
    /\ NoLedger

\* import_csv, one row: the position is inserted without looking for one of
\* the same symbol and without a transaction
ImportCsv ==
    /\ Len(db_positions) < MaxDocuments
    /\ \E row \in ImportedRows : db_positions' = Append(db_positions, row)
    /\ UNCHANGED <<serviceVars, fxVars, portfolio_metrics, db_transactions,
                   db_cash_accounts, db_cash_transactions, requests>>

\* update_cash_account(currency='EUR', amount, operation='set'): the account
\* is created when it does not exist
UpdateCashAccount ==
    /\ \E amount \in CashAmounts :
         db_cash_accounts' = <<[currency |-> "EUR", balance |-> amount]>>
    /\ UNCHANGED <<serviceVars, fxVars, portfolio_metrics, db_positions,
                   db_transactions, db_cash_transactions, requests>>

\* add_position, from the request to the first await of a request that
\* names its portfolio (line 204); get_ticker_info answers or returns None
AddPosition(r) ==
    /\ requests[r].pc = "idle"
    /\ \E position_data \in PositionData, ticker_info \in BOOLEAN :
         requests' = [requests EXCEPT ![r] = ReadRequest(position_data, ticker_info)]
    /\ UNCHANGED <<serviceVars, fxVars, portfolio_metrics, db_positions,
                   db_transactions, db_cash_accounts, db_cash_transactions>>

\* the portfolio page and the dashboard of one portfolio: get_positions, then
\* get_portfolio_summary
ViewPortfolio ==
    /\ op' = "totals"
    /\ positions' = get_positions(db_positions)
    /\ result' = SummaryTotals(db_positions, db_cash_accounts)
    /\ UNCHANGED <<market, period, target, benchmark, fxVars, dbVars>>

NextLedger ==
    \/ ImportCsv
    \/ UpdateCashAccount
    \/ \E r \in Requests : AddPosition(r)
    \/ ViewPortfolio

SpecLedger == InitLedger /\ [][NextLedger]_vars

Next ==
    \/ CalculatePortfolioPerformance
    \/ CalculatePositionPerformance

Spec == Init /\ [][Next]_vars

----------------------------------------------------------------------------
(* Vocabulary of the properties, stated on the inputs of the call and the   *)
(* market, independently of the pandas pipeline.                            *)

PortfolioCall == op = "portfolio"

PositionCall == op = "position"

\* the window start of the portfolio call (positions non-empty)
WindowStart == PortfolioStartDate(positions, period)

\* the native bar times of a symbol at or after a start
NativeFrom(symbol, start) ==
    IF market[symbol].ok
    THEN {t \in DOMAIN market[symbol].data : t >= start}
    ELSE {}

\* the positions of the call whose history is usable in the window
Included ==
    {i \in DOMAIN positions : NativeFrom(positions[i].symbol, WindowStart) # {}}

\* the close of a symbol on a date: the close of its latest native date up
\* to that date, or its first close in the window when it has none
FilledClose(symbol, date) ==
    LET native == NativeFrom(symbol, WindowStart)
        prior  == {t \in native : DateOf(t) <= date}
    IN  IF prior # {} THEN market[symbol].data[MaxOf(prior)]
        ELSE market[symbol].data[MinOf(native)]

\* what the holdings are worth on a date, every listed position counted
HoldingsValue(date) ==
    SumOver(Included,
            [i \in Included |->
               positions[i].quantity * FilledClose(positions[i].symbol, date)])

\* the table the portfolio call sums (positions non-empty)
AlignedFrame == Align(CollectSeries(positions, WindowStart, Len(positions)))

\* the totals the call computed for its rows, before rounding
UnroundedTotals ==
    LET df == AlignedFrame
    IN  [k \in DOMAIN df.index |-> TotalValue(df, df.index[k])]

\* some date of the output is a date on which an included symbol has no bar
\* of its own: the case the alignment exists for
MixedCalendars ==
    /\ PortfolioCall
    /\ result.data # <<>>
    /\ \E k \in DOMAIN result.data, i \in Included :
         \A t \in NativeFrom(positions[i].symbol, WindowStart) :
            DateOf(t) # result.data[k].date

----------------------------------------------------------------------------
(* C1 *)

\* C1 (as claimed): for positions of positive quantity and positive closes,
\* every entry of the series of calculate_portfolio_performance has
\* value > 0, for every period selector.
C1_EveryValuePositive ==
    (PortfolioCall /\ \A i \in DOMAIN positions : positions[i].quantity > 0)
        => \A k \in DOMAIN result.data : result.data[k].value > 0

\* C1 (amended): the total behind every entry is > 0 and no entry is
\* negative; the reported value, rounded to 2 decimals, is > 0 whenever the
\* total is at least 0.005, and is 0.0 only for a total below half a cent.
C1_PositiveUpToRounding ==
    (PortfolioCall /\ result.data # <<>>)
        => LET total == UnroundedTotals
           IN  /\ Len(result.data) = Len(total)
               /\ \A k \in DOMAIN result.data :
                    /\ total[k] > 0
                    /\ result.data[k].value >= 0
                    /\ (2 * total[k] >= 5 <=> result.data[k].value > 0)

\* a mixed-calendar portfolio worth more than a cent on a filled date
C1_Witness ==
    /\ MixedCalendars
    /\ Cardinality({positions[i].symbol : i \in Included}) = 2
    /\ \A k \in DOMAIN result.data : result.data[k].value > 0
    /\ Len(result.data) = 3

----------------------------------------------------------------------------
(* C2 *)

\* C2: on every date of the output the portfolio value is the sum over the
\* holdings with usable history of quantity x filled close (forward-filled,
\* else back-filled from the first close of the window), rounded to 2
\* decimals; a cell without native observation is never counted as 0.
C2_ValueIsSumOfFilledHoldings ==
    (PortfolioCall /\ result.data # <<>>)
        => \A k \in DOMAIN result.data :
              result.data[k].value = Round2(HoldingsValue(result.data[k].date))

\* C2, restricted: the same statement for the calls that list no symbol
\* twice (it holds: the fills are as claimed, the loss is in line 74, where
\* a second position of a symbol overwrites the first)
C2_HoldsForDistinctSymbols ==
    (/\ PortfolioCall
     /\ result.data # <<>>
     /\ \A i \in DOMAIN positions, j \in DOMAIN positions :
           positions[i].symbol = positions[j].symbol => i = j)
        => \A k \in DOMAIN result.data :
              result.data[k].value = Round2(HoldingsValue(result.data[k].date))

----------------------------------------------------------------------------
(* C3 *)

\* no close of an included symbol is below half of its preceding native close
NoHalving ==
    \A i \in Included :
       LET native == NativeFrom(positions[i].symbol, WindowStart)
           data   == market[positions[i].symbol].data
       IN  \A t \in native, u \in native :
              (t < u /\ ~ \E v \in native : t < v /\ v < u)
                 => 2 * data[u] >= data[t]

\* C3 (as claimed): when no instrument halves between two of its native
\* closes, no entry's value is more than 50% below the previous entry's.
C3_NoDropBeyondHalf ==
    (PortfolioCall /\ result.data # <<>> /\ NoHalving)
        => \A k \in DOMAIN result.data :
              k > 1 => 2 * result.data[k].value >= result.data[k - 1].value

\* C3 (amended): under the same condition no total is more than 50% below
\* the previous total; the reported values, each rounded to 2 decimals, obey
\* value[k] >= value[k-1] / 2 - 0.0075, that is 2 * value[k] + 0.01 >=
\* value[k-1] in whole cents.
C3_NoDropBeyondHalfUpToRounding ==
    (PortfolioCall /\ result.data # <<>> /\ NoHalving)
        => LET total == UnroundedTotals
           IN  \A k \in DOMAIN result.data :
                  k > 1 => /\ 2 * total[k] >= total[k - 1]
                           /\ 2 * result.data[k].value + 1 >= result.data[k - 1].value

\* a mixed-calendar portfolio of two symbols whose value moves down
C3_Witness ==
    /\ MixedCalendars
    /\ NoHalving
    /\ Cardinality({positions[i].symbol : i \in Included}) = 2
    /\ \E k \in DOMAIN result.data :
         k > 1 /\ result.data[k].value < result.data[k - 1].value

----------------------------------------------------------------------------
(* C4 *)

\* C4: the dates of the series are strictly increasing and are exactly the
\* union of the in-window native dates of the included instruments.
C4_UnionCalendar ==
    PortfolioCall /\ positions # <<>> /\ Included # {}
        => /\ \A k \in DOMAIN result.data :
                k > 1 => result.data[k - 1].date < result.data[k].date
           /\ {result.data[k].date : k \in DOMAIN result.data}
                = {DateOf(t) : t \in UNION {NativeFrom(positions[i].symbol, WindowStart)
                                              : i \in Included}}

\* two symbols with different calendars, neither containing the other
C4_Witness ==
    /\ MixedCalendars
    /\ Len(result.data) = 3
    /\ \A i \in Included :
         Cardinality(NativeFrom(positions[i].symbol, WindowStart)) < 3

----------------------------------------------------------------------------
(* C5 *)

\* C5: alignment is idempotent: the aligned per-instrument series, fed back
\* through the alignment, come out identical, and so does their row-wise sum.
C5_AlignIdempotent ==
    PortfolioCall /\ positions # <<>> /\ Included # {}
        => LET aligned == AlignedFrame
               again   == Align(aligned.cols)
           IN  /\ again = aligned
               /\ \A k \in DOMAIN again.index :
                     TotalValue(again, again.index[k])
                        = TotalValue(aligned, aligned.index[k])

\* an alignment that filled forward and backward
C5_Witness ==
    /\ MixedCalendars
    /\ \E i \in Included :
         LET native == NativeFrom(positions[i].symbol, WindowStart)
         IN  /\ \E k \in DOMAIN result.data :
                  \A t \in native : DateOf(t) > result.data[k].date
             /\ \E k \in DOMAIN result.data :
                  \A t \in native : DateOf(t) < result.data[k].date

----------------------------------------------------------------------------
(* C6 *)

\* the list without its i-th position
RemoveAt(ps, i) == [k \in 1..(Len(ps) - 1) |-> IF k < i THEN ps[k] ELSE ps[k + 1]]

\* the history of the i-th position is unavailable: the fetch gave nothing
\* (or raised), an empty table, or no point inside the window
Unavailable(i) == NativeFrom(positions[i].symbol, WindowStart) = {}

EarliestPurchase(ps) == MinOf({ps[i].purchase_date : i \in DOMAIN ps})

\* C6 (as claimed): with the history of one position unavailable the call
\* returns what it returns for the same list with that position removed.
C6_UnavailableEqualsRemoved ==
    PortfolioCall
        => \A i \in DOMAIN positions :
              Unavailable(i)
                 => result = calculate_portfolio_performance(RemoveAt(positions, i), period)

\* C6 (amended): a position with usable history always yields a series,
\* whatever the other positions; the equality holds for the period selectors 'ytd', '1m', '3m', '6m'
\* and '1y', and under 'all' when the removed position does not alone hold the
\* earliest purchase date (under 'all' the window starts at the earliest
\* purchase date of all listed positions, the unavailable ones included).
C6_UnavailableEqualsRemovedSameWindow ==
    PortfolioCall
        => /\ (positions # <<>> /\ Included # {}) => result.data # <<>>
           /\ \A i \in DOMAIN positions :
                 LET rest == RemoveAt(positions, i)
                 IN  (/\ Unavailable(i)
                      /\ \/ period # "all"
                         \/ rest = <<>>
                         \/ EarliestPurchase(rest) = EarliestPurchase(positions))
                        => result = calculate_portfolio_performance(rest, period)

\* one position without history beside one with history, and a series
C6_Witness ==
    /\ PortfolioCall
    /\ Len(positions) = 2
    /\ \E i \in DOMAIN positions : Unavailable(i) /\ ~market[positions[i].symbol].ok
    /\ Len(result.data) >= 2

----------------------------------------------------------------------------
(* C7 *)

\* C7: with no position, or no position with usable history in the window,
\* the call returns the explicit empty result, never a series.
C7_EmptyResultWithoutHistory ==
    (PortfolioCall /\ (positions = <<>> \/ Included = {}))
        => result = EmptyResult

\* positions are listed, their symbols have bars, but none in the window
C7_Witness ==
    /\ PortfolioCall
    /\ positions # <<>>
    /\ Included = {}
    /\ \E i \in DOMAIN positions :
         /\ market[positions[i].symbol].ok
         /\ DOMAIN market[positions[i].symbol].data # {}
    /\ result = EmptyResult

----------------------------------------------------------------------------
(* C8 *)

\* C8: total_return is data[-1].value - data[0].value within less than 1
\* unit (100 cents), for every period selector.
C8_TotalReturnFirstToLast ==
    (PortfolioCall /\ result.data # <<>>)
        => LET diff == result.total_return
                         - (result.data[Len(result.data)].value - result.data[1].value)
           IN  -100 < diff /\ diff < 100

\* a series that gained or lost more than a unit
C8_Witness ==
    /\ PortfolioCall
    /\ Len(result.data) >= 2
    /\ result.total_return > 100
    /\ result.data[1].value > 100

----------------------------------------------------------------------------
(* C9 *)

\* pct is (value - base) / base * 100 rounded to 2 decimals
IsPercentChange(pct, value, base) ==
    /\ 2 * (pct * base - 10000 * (value - base)) <= base
    /\ 2 * (10000 * (value - base) - pct * base) <= base

\* the unrounded values behind the entries of a position call
PositionValuesOfCall ==
    LET inWindow == SortedSeq(NativeFrom(target.symbol,
                                         PositionStartDate(target.purchase_date, period)))
    IN  [k \in DOMAIN inWindow |->
           market[target.symbol].data[inWindow[k]] * target.quantity]

\* C9 (as claimed): in every non-empty summary, of the portfolio or of a
\* position, change_percent is the change of the entry relative to the
\* first entry, so that the first change_percent is 0.
C9_ChangeRelativeToFirstEntry ==
    /\ (PortfolioCall /\ result.data # <<>>)
          => LET total == UnroundedTotals
             IN  /\ result.data[1].change_percent = 0
                 /\ \A k \in DOMAIN result.data :
                       IsPercentChange(result.data[k].change_percent, total[k], total[1])
    /\ (PositionCall /\ result.data # <<>>)
          => LET value == PositionValuesOfCall
             IN  /\ result.data[1].change_percent = 0
                 /\ \A k \in DOMAIN result.data :
                       IsPercentChange(result.data[k].change_percent, value[k], value[1])

\* C9 (amended): in a portfolio summary change_percent is relative to the
\* first total of the series (first entry 0); in a position summary it is
\* relative to the cost purchase_price x quantity, never day-over-day, so
\* the first entry is 0 only when the first close equals the purchase price
\* (and every entry is 0 when the cost is not positive).
C9_ChangeRelativeToBase ==
    /\ (PortfolioCall /\ result.data # <<>>)
          => LET total == UnroundedTotals
             IN  /\ result.data[1].change_percent = 0
                 /\ \A k \in DOMAIN result.data :
                       IsPercentChange(result.data[k].change_percent, total[k], total[1])
    /\ (PositionCall /\ result.data # <<>>)
          => LET value == PositionValuesOfCall
                 cost  == target.avg_price * target.quantity
             IN  /\ Len(value) = Len(result.data)
                 /\ \A k \in DOMAIN result.data :
                       IF cost > 0
                       THEN IsPercentChange(result.data[k].change_percent, value[k], cost)
                       ELSE result.data[k].change_percent = 0

\* a portfolio series whose second move is not the move from the first entry
C9_Witness ==
    /\ PortfolioCall
    /\ Len(result.data) = 3
    /\ result.data[2].change_percent > 0
    /\ result.data[3].change_percent < 0
    /\ result.data[3].value > 100

----------------------------------------------------------------------------
(* C10 *)

\* C10: no entry of a position series is dated before the purchase date.
C10_NoEntryBeforePurchase ==
    PositionCall
        => \A k \in DOMAIN result.data :
              result.data[k].date >= DateOf(target.purchase_date)

\* the period starts before the purchase, and the symbol has bars before it
C10_Witness ==
    /\ PositionCall
    /\ result.data # <<>>
    /\ PeriodStart(period, target.purchase_date) < target.purchase_date
    /\ \E t \in DOMAIN market[target.symbol].data :
         /\ t < target.purchase_date
         /\ t >= PeriodStart(period, target.purchase_date)

----------------------------------------------------------------------------
(* Vocabulary of the comparison with the index *)

CompareCall == op = "compare"

\* the portfolio series the endpoint hands to compare_with_index
PortfolioSeries == calculate_portfolio_performance(positions, period).data

DatesOf(entries) == {entries[k].date : k \in DOMAIN entries}

\* the index trading dates between the first and the last portfolio date
IndexDatesInRange(series) ==
    IF series = <<>> \/ ~benchmark.ok THEN {}
    ELSE {d \in {DateOf(t) : t \in DOMAIN benchmark.data} :
            /\ d >= series[1].date
            /\ d <= series[Len(series)].date}

\* the entry of a series at a date that has one
EntryAt(entries, d) == entries[CHOOSE k \in DOMAIN entries : entries[k].date = d]

\* the latest date of a series before d
LatestBefore(series, d) == MaxOf({e \in DatesOf(series) : e < d})

\* C11: on every index trading date in range without a portfolio entry but
\* with an earlier portfolio entry, portfolio_percent is the change_percent of
\* the latest portfolio entry before that date (and the date has an entry).
C11_CarriesLatestEarlierEntry ==
    CompareCall =>
        LET series == PortfolioSeries
        IN  \A d \in IndexDatesInRange(series) :
                (d \notin DatesOf(series) /\ \E e \in DatesOf(series) : e < d)
                => /\ d \in DatesOf(result.data)
                   /\ EntryAt(result.data, d).portfolio_percent
                        = EntryAt(series, LatestBefore(series, d)).change_percent

\* what is carried is the portfolio percent of the latest earlier index date
\* that has a portfolio entry, and 0 when there is none
C11_CarriesLastMatchedIndexDate ==
    CompareCall =>
        LET series == PortfolioSeries
            inRange == IndexDatesInRange(series)
        IN  \A d \in inRange :
                d \notin DatesOf(series)
                => LET matched == {e \in inRange \cap DatesOf(series) : e < d}
                   IN  /\ d \in DatesOf(result.data)
                       /\ EntryAt(result.data, d).portfolio_percent
                            = IF matched = {} THEN 0
                              ELSE EntryAt(series, MaxOf(matched)).change_percent

\* C12: the comparison has exactly one entry per index trading date between
\* the first and the last portfolio date, in ascending date order; a date on
\* which only the portfolio has data has no entry.
C12_OneEntryPerIndexDateInRange ==
    CompareCall =>
        LET series == PortfolioSeries
        IN  [k \in DOMAIN result.data |-> result.data[k].date]
              = SortedSeq(IndexDatesInRange(series))

\* a comparison with entries, an index date outside the portfolio's range and
\* a portfolio date the index did not trade on
C12_Witness ==
    /\ CompareCall
    /\ result.data # <<>>
    /\ LET series == PortfolioSeries
       IN  /\ \E t \in DOMAIN benchmark.data :
                 DateOf(t) \notin IndexDatesInRange(series)
           /\ \E d \in DatesOf(series) : d \notin DatesOf(result.data)
           /\ Len(result.data) >= 2

----------------------------------------------------------------------------
(* Vocabulary of the exchange-rate cache *)

KeyOf(c) == CacheKey(calls[c].from_currency, calls[c].to_currency)

\* the step of caller c that returns the cached rate (line 37)
ServesFromCache(c) ==
    /\ calls[c].pc = "lookup"
    /\ calls'[c].pc = "done"
    /\ calls'[c].exit = "cache"

\* the step of caller c whose fetch raises or answers no rows
FetchFails(c) ==
    /\ calls[c].pc = "fetch"
    /\ calls'[c].pc = "done"
    /\ calls'[c].exit \in {"error", "no_data"}

\* C13: a rate served from the cache for a pair was fetched for that pair at
\* most CACHE_DURATION seconds before the call that is served it.
C13_ServedEntriesAreFresh ==
    [][\A c \in Callers :
          ServesFromCache(c)
          => calls[c].now - exchange_rate_cache[KeyOf(c)].fetched_at
               <= CACHE_DURATION]_vars

\* C14: a fetch that raises or answers no data makes the call return 1.0 and
\* leaves the cache and its timestamp as they were.
C14_FailedFetchFallsBack ==
    [][\A c \in Callers :
          FetchFails(c)
          => /\ calls'[c].returned = NeutralRate
             /\ exchange_rate_cache' = exchange_rate_cache
             /\ cache_timestamp' = cache_timestamp]_vars

\* a call fell back while the cache held a rate and a timestamp
C14_Witness ==
    \E c \in Callers :
        /\ calls[c].pc = "done"
        /\ calls[c].exit \in {"error", "no_data"}
        /\ calls[c].returned = NeutralRate
        /\ exchange_rate_cache # <<>>
        /\ cache_timestamp # NoTimestamp

\* C15: in every interleaving, each cached entry holds a rate quoted for the
\* pair of its key, and each call returns a rate quoted for its own pair, or
\* 1.0.
C15_EntriesAndReturnsOfOwnPair ==
    /\ \A k \in DOMAIN exchange_rate_cache :
          exchange_rate_cache[k].rate \in Quotes(k[1], k[2])
    /\ \A c \in Callers :
          calls[c].pc = "done"
          => \/ calls[c].returned = NeutralRate
             \/ calls[c].returned \in Quotes(calls[c].from_currency,
                                             calls[c].to_currency)

\* two calls race on one pair: both fetched, one has stored and the other is
\* about to, while another pair is cached too
C15_Witness ==
    \E c, d \in Callers :
        /\ c # d
        /\ calls[c].pc = "stamp"
        /\ calls[d].pc = "store"
        /\ KeyOf(c) = KeyOf(d)
        /\ Cardinality(DOMAIN exchange_rate_cache) = 2

----------------------------------------------------------------------------
(* Vocabulary of the metrics *)

\* the sum of f over a finite set, in fractions
RECURSIVE FSumSet(_, _)
FSumSet(S, f) ==
    IF S = {} THEN Fraction(0, 1)
    ELSE LET x == CHOOSE y \in S : TRUE
         IN  FAdd(f[x], FSumSet(S \ {x}, f))

AssetReturns == calculate_returns(market[target.symbol].data)

MarketReturns == calculate_returns(benchmark.data)

\* the pairs of distinct dates of a set, each once
DatePairs(dates) == {p \in dates \X dates : p[1] < p[2]}

\* the sum over the pairs of dates of the products of the differences of two
\* series; divided by n (n - 1) it is their sample covariance
PairProducts(xs, ys, dates) ==
    LET pairs == DatePairs(dates)
    IN  FSumSet(pairs, [p \in pairs |->
                          FMul(FSub(xs[p[1]], xs[p[2]]), FSub(ys[p[1]], ys[p[2]]))])

\* a series of two or more values, all equal
ZeroVariance(series) ==
    /\ Cardinality(DOMAIN series) >= 2
    /\ \A s, t \in DOMAIN series : series[s] = series[t]

\* C16: calculate_beta returns exactly 1.0 when the two series share fewer
\* than 2 dates or the market returns have zero variance over the shared
\* dates, and otherwise the covariance over the market variance, both taken
\* over the shared dates only.
C16_BetaOverCommonDates ==
    op = "calculate_beta" =>
        LET asset  == AssetReturns
            market_ == MarketReturns
            common == DOMAIN asset \cap DOMAIN market_
            spread == PairProducts(market_, market_, common)
        IN  IF Cardinality(common) < 2 \/ spread.num = 0
            THEN result = One
            ELSE result = Exact(FDiv(PairProducts(asset, market_, common), spread))

\* a beta other than 1.0 computed while the index has a return on a date the
\* asset has none
C16_Witness ==
    /\ op = "calculate_beta"
    /\ result \notin {One, Zero}
    /\ LET common == DOMAIN AssetReturns \cap DOMAIN MarketReturns
       IN  /\ Cardinality(common) >= 2
           /\ DOMAIN MarketReturns # common

\* C17: the Sharpe ratio is 0.0 whenever the volatility is 0:
\* yf_service.calculate_sharpe_ratio on returns of zero variance, and
\* calculate_sharpe_ratio_custom on a portfolio of zero historical volatility.
C17_ZeroVolatilityGivesZeroSharpe ==
    /\ (op = "yf_sharpe" /\ ZeroVariance(AssetReturns)) => result = Zero
    /\ (op = "sharpe_custom"
          /\ positions # <<>>
          /\ calculate_portfolio_volatility(positions).historical = Zero)
       => result = Zero

\* the half of C17 that holds: calculate_sharpe_ratio_custom
C17_CustomSharpeIsZeroAtZeroVolatility ==
    (op = "sharpe_custom"
       /\ calculate_portfolio_volatility(positions).historical = Zero)
    => result = Zero

MetricOps == {"volatility", "realized", "beta", "sharpe", "sharpe_custom"}

NeutralDefault(name) ==
    IF name = "volatility" THEN NeutralVolatility
    ELSE IF name = "beta" THEN One
    ELSE Zero

\* every float of a metric result is a number
AllFinite(value) ==
    IF "historical" \in DOMAIN value
    THEN IsFinite(value.historical) /\ IsFinite(value.realized)
    ELSE IsFinite(value)

\* no position with a history has two prices
FewerThanTwoPrices(ps) ==
    \A i \in DOMAIN ps :
        LET hist_data == get_historical_data(ps[i].symbol)
        IN  hist_data.ok => Cardinality(DOMAIN hist_data.data) < 2

\* C18: on non-empty degenerate inputs (total value 0, total invested 0,
\* histories of fewer than two prices) the five metric operations return
\* their neutral default, and they never return NaN or an infinity.
C18_DegenerateInputsGiveNeutralDefaults ==
    (op \in MetricOps /\ positions # <<>>) =>
        /\ AllFinite(result)
        /\ (\/ TotalOf(positions, "total_value") = 0
            \/ op = "sharpe_custom" /\ TotalOf(positions, "invested") = 0
            \/ FewerThanTwoPrices(positions))
           => result = NeutralDefault(op)

\* the part of C18 that holds: the realized volatility is always a number,
\* and 0.0 on the degenerate inputs
C18_RealizedVolatilityIsNeutral ==
    (op = "realized" /\ positions # <<>>) =>
        /\ IsFinite(result)
        /\ (TotalOf(positions, "total_value") = 0 \/ FewerThanTwoPrices(positions))
           => result = Zero

\* C19: with zero positions the volatility is {0.0, 0.0}, the beta 1.0, the
\* Sharpe ratio 0.0 and the performance series empty, for the analytics
\* operations and for the summary and performance endpoints.
C19_NoPositionsGiveNeutralMetrics ==
    positions = <<>> =>
        /\ op \in MetricOps => result = NeutralDefault(op)
        /\ op = "summary" =>
              /\ result.volatility = NeutralVolatility
              /\ result.beta = One
              /\ result.sharpe_ratio = Zero
        /\ op = "performance" => result.data = <<>>

\* the beta of no position, asked while the index and a symbol have moving
\* prices
C19_Witness ==
    /\ op = "beta"
    /\ positions = <<>>
    /\ result = One
    /\ benchmark.ok
    /\ ~ZeroVariance(MarketReturns)
    /\ Cardinality(DOMAIN MarketReturns) >= 2
    /\ \E s \in Symbols : market[s].ok /\ Cardinality(DOMAIN market[s].data) >= 2

\* C20: in calculate_portfolio_volatility, calculate_portfolio_beta and
\* calculate_sharpe_ratio the weights applied to the positions with a history
\* sum to 1 (a position without history is left out of the denominator).
C20_WeightsSumToOne ==
    op \in {"volatility", "beta", "sharpe"} =>
        LET collected == CollectReturns(positions)
        IN  collected.weights # <<>> => FSum(collected.weights) = Fraction(1, 1)

\* the weights do sum to 1 when every position has a history
C20_WeightsSumToOneWhenAllHaveHistory ==
    op \in {"volatility", "beta", "sharpe"} =>
        LET collected == CollectReturns(positions)
        IN  (collected.weights # <<>> /\ Len(WithHistory(positions)) = Len(positions))
            => FSum(collected.weights) = Fraction(1, 1)

----------------------------------------------------------------------------
(* Vocabulary of the combined series *)

\* the positions in the opposite order
Reversed(ps) == [i \in DOMAIN ps |-> ps[Len(ps) + 1 - i]]

\* C21: the weighted return series of calculate_portfolio_volatility and of
\* calculate_sharpe_ratio is built over the dates common to all the included
\* holdings, so the result is the same when the positions are permuted.
C21_ResultInvariantUnderPermutation ==
    /\ op = "volatility" => result = calculate_portfolio_volatility(Reversed(positions))
    /\ op = "sharpe" => result = calculate_sharpe_ratio(Reversed(positions))

\* the dates of the series are those of the first included holding, whatever
\* the others have
C21_IndexIsThatOfTheFirstHolding ==
    op \in {"volatility", "sharpe"} =>
        LET collected == CollectReturns(positions)
        IN  (~collected.raised /\ collected.returns_data # <<>>)
            => DOMAIN CombineReturns(DOMAIN collected.returns_data[1],
                                     collected.weights, collected.returns_data)
               = DOMAIN calculate_returns(
                     get_historical_data(positions[WithHistory(positions)[1]].symbol).data)

----------------------------------------------------------------------------
(* Vocabulary of the recommendations *)

RecommendationCall == op = "recommendations"

\* the items of a list that carry a title, in order
ItemsTitled(items, titles) ==
    LET Titled(item) == item.title \in titles
    IN  SelectSeq(items, Titled)

\* the place of an item in the evaluation order of the four checks
Rank(item) ==
    IF item.title = ConcentrationItem(target).title THEN 1
    ELSE IF item.title = VolatilityItem(target).title THEN 2
    ELSE IF item.title \in {BalancedBetaItem.title, HighBetaItem.title} THEN 3
    ELSE 4

\* the division by a total of 0 is reached
DividesByZero == positions # <<>> /\ TotalOf(positions, "total_value") = 0

\* C22: generate_recommendations emits a high-priority concentration warning
\* for a position if and only if its total_value is at least 40% of the sum
\* of the total_value of all the positions; exactly 40% is warned.
C22_WarnsAtFortyPercentOrMore ==
    (RecommendationCall /\ TotalOf(positions, "total_value") > 0) =>
        LET total_value == TotalOf(positions, "total_value")
            AtLeastForty(position) == 100 * position.total_value >= 40 * total_value
            heavy == SelectSeq(positions, AtLeastForty)
        IN  ItemsTitled(result, {ConcentrationItem(target).title})
            = [k \in DOMAIN heavy |->
                  [type |-> "warning", title |-> ConcentrationItem(target).title,
                   priority |-> "high", about |-> heavy[k].symbol]]

\* what the code does: the warning is for a weight strictly above 40%
C22_WarnsAboveFortyPercent ==
    (RecommendationCall /\ TotalOf(positions, "total_value") > 0) =>
        LET total_value == TotalOf(positions, "total_value")
            AboveForty(position) == 100 * position.total_value > 40 * total_value
            heavy == SelectSeq(positions, AboveForty)
        IN  ItemsTitled(result, {ConcentrationItem(target).title})
            = [k \in DOMAIN heavy |->
                  [type |-> "warning", title |-> ConcentrationItem(target).title,
                   priority |-> "high", about |-> heavy[k].symbol]]

\* the beta the checks read: a missing one is 1.0
BetaRead == IF portfolio_metrics.beta = Absent THEN One ELSE portfolio_metrics.beta

\* the thresholds of the beta checks, on a beta in hundredths
BetaBalanced ==
    /\ BetaRead.kind = "num"
    /\ 90 * BetaRead.val.den <= 100 * BetaRead.val.num
    /\ 100 * BetaRead.val.num <= 130 * BetaRead.val.den

BetaHigh ==
    /\ BetaRead.kind = "num"
    /\ 100 * BetaRead.val.num > 150 * BetaRead.val.den

\* C23: from the beta alone, the low-priority success note is emitted if and
\* only if 0.9 <= beta <= 1.3, the high-priority warning if and only if
\* beta > 1.5, nothing otherwise, never both; a missing beta counts as 1.0.
C23_BetaItemFollowsBetaAlone ==
    RecommendationCall =>
        ItemsTitled(result, {BalancedBetaItem.title, HighBetaItem.title})
        = IF BetaBalanced THEN <<BalancedBetaItem>>
          ELSE IF BetaHigh THEN <<HighBetaItem>>
          ELSE <<>>

\* the thresholds are those of the claim whenever the checks are reached
C23_BetaItemFollowsBetaWhenReached ==
    (RecommendationCall /\ ~DividesByZero) =>
        ItemsTitled(result, {BalancedBetaItem.title, HighBetaItem.title})
        = IF BetaBalanced THEN <<BalancedBetaItem>>
          ELSE IF BetaHigh THEN <<HighBetaItem>>
          ELSE <<>>

\* C24: the four checks are independent and in a fixed order: the beta item
\* and the Sharpe item depend only on portfolio_metrics, never on the
\* positions (a total value of 0 included), and the list is ordered as
\* concentration warnings, volatility notices, beta item, Sharpe item.
C24_IndependentChecksInFixedOrder ==
    RecommendationCall =>
        /\ ItemsTitled(result, {BalancedBetaItem.title, HighBetaItem.title,
                                SharpeItem.title})
           = generate_recommendations(<<>>, portfolio_metrics)
        /\ \A i, j \in DOMAIN result : i < j => Rank(result[i]) <= Rank(result[j])

\* the order of the items is fixed in every list
C24_FixedOrder ==
    RecommendationCall =>
        \A i, j \in DOMAIN result : i < j => Rank(result[i]) <= Rank(result[j])

----------------------------------------------------------------------------
(* Vocabulary of the ledger *)

\* request r is answered in this step
Answered(r) == requests[r].pc = "idle" /\ requests'[r].pc = "done"

\* the step leaves the four collections as they are
LedgerUnchanged ==
    UNCHANGED <<db_positions, db_transactions, db_cash_accounts, db_cash_transactions>>

\* find_one({symbol}): the place of the first position of a symbol, 0 for None
ExistingPosition(docs, symbol) ==
    LET places == {i \in DOMAIN docs : docs[i].symbol = symbol}
    IN  IF places = {} THEN 0 ELSE MinOf(places)

\* the collection after q units of the position at place i are sold
AfterSale(docs, i, q) ==
    IF docs[i].quantity = q
    THEN [k \in 1..(Len(docs) - 1) |-> IF k < i THEN docs[k] ELSE docs[k + 1]]
    ELSE [docs EXCEPT ![i].quantity = @ - q]

\* a sale the provider knows the symbol of
SellOfKnownSymbol(r) ==
    /\ Answered(r)
    /\ requests'[r].transaction_type = "sell"
    /\ requests'[r].ticker_info

\* a purchase the provider knows the symbol of
BuyOfKnownSymbol(r) ==
    /\ Answered(r)
    /\ requests'[r].transaction_type = "buy"
    /\ requests'[r].ticker_info

\* the sale asks for more than is held, or nothing is held
Oversell(r) ==
    LET i == ExistingPosition(db_positions, requests'[r].symbol)
    IN  i = 0 \/ requests'[r].quantity > db_positions[i].quantity

\* C26: a sell request through add_position for more units than held, or
\* for a symbol with no position in the portfolio, is rejected with HTTP 400
\* and changes nothing: positions, transaction log and cash balance are as
\* before the request.
C26_OversellRejectedWith400 ==
    [][\A r \in Requests :
          (SellOfKnownSymbol(r) /\ Oversell(r))
          => (requests'[r].status = 400 /\ LedgerUnchanged)]_vars

\* the part of C26 that holds: such a sale is refused and changes nothing
C26_OversellChangesNothing ==
    [][\A r \in Requests :
          (SellOfKnownSymbol(r) /\ Oversell(r))
          => (requests'[r].status = 500 /\ LedgerUnchanged)]_vars

\* C27: a sell of q units (0 < q <= held) through add_position succeeds,
\* reduces the quantity of the position by exactly q and leaves its avg_price
\* unchanged; at 0 the position is deleted; one sell transaction is recorded
\* and the new cash balance is greater than the one before the sale.
C27_SellReducesQuantity ==
    [][\A r \in Requests :
          (SellOfKnownSymbol(r) /\ ~Oversell(r))
          => LET i == ExistingPosition(db_positions, requests'[r].symbol)
                 q == requests'[r].quantity
             IN  /\ requests'[r].status = 200
                 /\ db_positions' = AfterSale(db_positions, i, q)
                 /\ db_transactions'
                    = Append(db_transactions,
                             [type |-> "sell", symbol |-> requests'[r].symbol,
                              quantity |-> q, price |-> requests'[r].avg_price])
                 /\ TotalCashEur(db_cash_accounts') > TotalCashEur(db_cash_accounts)]_vars

\* what happens instead: every sale of a known symbol is answered 500
C27_SellIsAnswered500 ==
    [][\A r \in Requests :
          SellOfKnownSymbol(r) => (requests'[r].status = 500 /\ LedgerUnchanged)]_vars

\* C28: a buy through add_position of a symbol already held merges into the
\* existing position: no second position, the quantity is old + bought and
\* the avg_price is within 0.01 of the quantity-weighted average
\* (old_qty x old_price + qty x price) / (old_qty + qty).
C28_BuyMergesIntoExistingPosition ==
    [][\A r \in Requests :
          (BuyOfKnownSymbol(r) /\ ExistingPosition(db_positions, requests'[r].symbol) # 0)
          => LET i == ExistingPosition(db_positions, requests'[r].symbol)
                 old == db_positions[i]
                 q == requests'[r].quantity
                 invested == old.quantity * old.avg_price + q * requests'[r].avg_price
             IN  /\ requests'[r].status = 200
                 /\ Len(db_positions') = Len(db_positions)
                 /\ db_positions'[i].quantity = old.quantity + q
                 /\ Abs(db_positions'[i].avg_price * (old.quantity + q) - invested)
                    <= 5 * (old.quantity + q)]_vars

\* what happens instead: every buy of a known symbol is answered 500
C28_BuyIsAnswered500 ==
    [][\A r \in Requests :
          BuyOfKnownSymbol(r) => (requests'[r].status = 500 /\ LedgerUnchanged)]_vars

\* C29: for one portfolio the dashboard and the portfolio page show the same
\* total: the total_value of get_portfolio_summary and the sum of the
\* total_value of the positions of get_positions differ by less than 1, in
\* every state of the positions and of the cash accounts.
C29_SummaryTotalIsPositionsTotal ==
    op = "totals" =>
        Abs(result.total_value - TotalOf(positions, "total_value")) < 100

\* what holds: the positions_value of the summary is the total of the page
C29_PositionsValueIsPositionsTotal ==
    op = "totals" =>
        Abs(result.positions_value - TotalOf(positions, "total_value")) < 100

====
